---- MODULE Spec2Model ----
(***************************************************************************)
(* Feistel permutation of storage-proofs/src/crypto/feistel.rs.            *)
(*                                                                         *)
(* An Index (u64) is modelled exactly, as the set of the positions of its  *)
(* one bits (bit 0 is the least significant): {} is 0, {0, 2} is 5,        *)
(* {62} is 2^62.  The bitwise operators of the source are set operations,  *)
(* shifts move positions and drop those that leave the 64-bit word.        *)
(* A byte (u8) is the same with positions 0..7.                            *)
(*                                                                         *)
(* The hash (FeistelHash = Blake2b) is an external collaborator: it is an  *)
(* unknown function from the 16-byte input buffer to a 64-byte digest,     *)
(* passed to the operators as `digest` and held in the variable blake2b.   *)
(***************************************************************************)
EXTENDS Integers, Sequences, FiniteSets, TLC

VARIABLES
    num_elements,   \* the domain size n handed to precompute / permute
    keys,           \* the key sequence (a sequence of Index)
    blake2b,        \* the hash function: input buffer -> digest
    test,           \* which driver runs: "encode_decode", "permute", "precompute", "feistel"
    pc,             \* position of the driver
    precomputed,    \* the FeistelPrecomputed triple (left_mask, right_mask, half_bits)
    i,              \* loop counter of the driver (for i in 0..n)
    index,          \* the index handed to the current call
    p,              \* result of encode / permute
    v,              \* result of decode / invert_permute
    walk,           \* the successive values of `u` in the last cycle-walking call
    perm,           \* the values permute returned for 0, 1, ..., i-1
    round_key,      \* round function probe: the key
    round_mask,     \* round function probe: the right_mask
    round_calls     \* round function probe: the calls made so far

vars == <<num_elements, keys, blake2b, test, pc, precomputed, i, index, p, v,
          walk, perm, round_key, round_mask, round_calls>>

(***************************************************************************)
(* Bounds of the model.                                                    *)
(***************************************************************************)
MaxN == 17          \* domain sizes 1..MaxN in the permutation runs
MaxWalk == 8        \* cap on the iterations of a cycle-walking loop
MaxLog4 == 40       \* cap on the iterations of precompute's loop
MaxSmallPre == 40   \* precompute is run on 1..MaxSmallPre and on the large sizes

(***************************************************************************)
(* Program constants.                                                      *)
(***************************************************************************)
FEISTEL_ROUNDS == 3
IndexBits == 64
DigestBytes == 64
HALF_FEISTEL_BYTES == IndexBits \div 8
FEISTEL_BYTES == 2 * HALF_FEISTEL_BYTES

(***************************************************************************)
(* u64 arithmetic on bit-position sets.                                    *)
(***************************************************************************)
Bits == 0 .. (IndexBits - 1)

RECURSIVE FromNat(_)
FromNat(k) ==
    IF k = 0 THEN {}
    ELSE (IF k % 2 = 1 THEN {0} ELSE {}) \cup {b + 1 : b \in FromNat(k \div 2)}

RECURSIVE ToNat(_)
ToNat(a) ==
    IF a = {} THEN 0
    ELSE LET b == CHOOSE x \in a : TRUE IN 2^b + ToNat(a \ {b})

BitAnd(a, b) == a \cap b
BitOr(a, b) == a \cup b
BitXor(a, b) == (a \ b) \cup (b \ a)
Shl(a, k) == {b + k : b \in a} \cap Bits
Shr(a, k) == {b - k : b \in {c \in a : c >= k}}
\* a < b : the highest bit in which they differ is a bit of b
Lt(a, b) == \E m \in b \ a : \A j \in a \ b : j < m
Le(a, b) == ~Lt(b, a)
\* a - 1 (a # 0): the lowest one bit is cleared and the bits below it are set
Sub1(a) ==
    IF a = {} THEN Bits
    ELSE LET m == CHOOSE x \in a : \A y \in a : x <= y
         IN (a \ {m}) \cup (0 .. (m - 1))
\* a * 4 does not fit in 64 bits
Mul4Overflows(a) == a \cap {IndexBits - 2, IndexBits - 1} # {}
AsU8(a) == a \cap (0 .. 7)

(***************************************************************************)
(* precompute (lines 17-30).                                               *)
(***************************************************************************)
\* the loop with `next_pow4 <= num_elements` as its condition
RECURSIVE precompute_loop_le(_, _, _, _)
precompute_loop_le(next_pow4, log4, n, overflow) ==
    IF ~Le(next_pow4, n)
    THEN [exit |-> TRUE, next_pow4 |-> next_pow4, log4 |-> log4, overflow |-> overflow]
    ELSE IF log4 >= MaxLog4
    THEN [exit |-> FALSE, next_pow4 |-> next_pow4, log4 |-> log4, overflow |-> overflow]
    ELSE precompute_loop_le(Shl(next_pow4, 2), log4 + 1, n,
                            overflow \/ Mul4Overflows(next_pow4))

\* while next_pow4 < num_elements { next_pow4 *= 4; log4 += 1 }
\* `overflow` records that a multiplication left the 64-bit range; the
\* recursion then continues with the wrapped value (the release build).
RECURSIVE precompute_loop(_, _, _, _)
precompute_loop(next_pow4, log4, n, overflow) ==
    IF ~Lt(next_pow4, n)
    THEN [exit |-> TRUE, next_pow4 |-> next_pow4, log4 |-> log4, overflow |-> overflow]
    ELSE IF log4 >= MaxLog4
    THEN [exit |-> FALSE, next_pow4 |-> next_pow4, log4 |-> log4, overflow |-> overflow]
    ELSE precompute_loop(Shl(next_pow4, 2), log4 + 1, n,
                         overflow \/ Mul4Overflows(next_pow4))

precompute_run(n) == precompute_loop(FromNat(4), 1, n, FALSE)

precompute(n) ==
    LET log4 == precompute_run(n).log4
        left_mask == Shl(Sub1(Shl(FromNat(1), log4)), log4)
        right_mask == Sub1(Shl(FromNat(1), log4))
        half_bits == log4
    IN <<left_mask, right_mask, half_bits>>

(***************************************************************************)
(* feistel, the round function (lines 105-141).                            *)
(***************************************************************************)
\* One of the two serialisation loops: item k of the first HALF_FEISTEL_BYTES
\* items gets (val >> shift) as u8, where shift starts at 56 and loses 8 per
\* item (the test `shift > 0` only keeps the last decrement from underflowing),
\* so item k is written with shift 56 - 8k.  `first` is the index of item 0.
write_be(data, val, first) ==
    [k \in DOMAIN data |->
        IF k >= first /\ k < first + HALF_FEISTEL_BYTES
        THEN AsU8(Shr(val, (HALF_FEISTEL_BYTES - 1) * 8 - 8 * (k - first)))
        ELSE data[k]]

\* the layout with the key in the upper half of the buffer
feistel_data_upper(right, key) ==
    write_be(write_be([k \in 0 .. (FEISTEL_BYTES - 1) |-> {}], right, 0),
             key, HALF_FEISTEL_BYTES)

\* the buffer handed to the hash: data.iter_mut().take(HALF_FEISTEL_BYTES) is
\* written with right, then data[0..HALF_FEISTEL_BYTES] with key
feistel_data(right, key) ==
    write_be(write_be([k \in 0 .. (FEISTEL_BYTES - 1) |-> {}], right, 0), key, 0)

\* (0..HALF_FEISTEL_BYTES).fold(0, |acc, i| acc | Index::from(hash[i * 8]))
feistel_fold(hash) == UNION {hash[k * 8] : k \in 0 .. (HALF_FEISTEL_BYTES - 1)}

feistel(digest, right, key, right_mask) ==
    LET data == feistel_data(right, key)
        hash == digest[data]
        r == feistel_fold(hash)
    IN BitAnd(r, right_mask)

(***************************************************************************)
(* common_setup, encode, decode (lines 72-103).                            *)
(***************************************************************************)
common_setup(idx, pre) ==
    LET left_mask == pre[1]
        right_mask == pre[2]
        half_bits == pre[3]
        left == Shr(BitAnd(idx, left_mask), half_bits)
        right == BitAnd(idx, right_mask)
    IN <<left, right, right_mask, half_bits>>

Take(s, k) == SubSeq(s, 1, IF Len(s) < k THEN Len(s) ELSE k)

\* for key in keys.iter().take(FEISTEL_ROUNDS)
RECURSIVE encode_rounds(_, _, _, _, _)
encode_rounds(digest, left, right, ks, right_mask) ==
    IF ks = <<>> THEN <<left, right>>
    ELSE encode_rounds(digest, right,
                       BitXor(left, feistel(digest, right, Head(ks), right_mask)),
                       Tail(ks), right_mask)

\* encode that recombines the halves without the shift
encode_noshift(digest, idx, ks, pre) ==
    LET s == common_setup(idx, pre)
        lr == encode_rounds(digest, s[1], s[2], Take(ks, FEISTEL_ROUNDS), s[3])
    IN BitOr(lr[1], lr[2])

encode(digest, idx, ks, pre) ==
    LET s == common_setup(idx, pre)
        lr == encode_rounds(digest, s[1], s[2], Take(ks, FEISTEL_ROUNDS), s[3])
    IN BitOr(Shl(lr[1], s[4]), lr[2])

\* for i in (0..FEISTEL_ROUNDS).rev(), with keys[i] bounds-checked.
\* k is i + 1 (sequences are 1-based); k = 0 is the end of the loop.
RECURSIVE decode_rounds(_, _, _, _, _, _)
decode_rounds(digest, left, right, ks, k, right_mask) ==
    IF k = 0 THEN [panic |-> FALSE, left |-> left, right |-> right]
    ELSE IF k > Len(ks) THEN [panic |-> TRUE, left |-> left, right |-> right]
    ELSE decode_rounds(digest,
                       BitXor(right, feistel(digest, left, ks[k], right_mask)),
                       left, ks, k - 1, right_mask)

\* decode whose rounds do not swap the halves
RECURSIVE decode_rounds_noswap(_, _, _, _, _, _)
decode_rounds_noswap(digest, left, right, ks, k, right_mask) ==
    IF k = 0 THEN [panic |-> FALSE, left |-> left, right |-> right]
    ELSE IF k > Len(ks) THEN [panic |-> TRUE, left |-> left, right |-> right]
    ELSE decode_rounds_noswap(digest, left,
                       BitXor(right, feistel(digest, left, ks[k], right_mask)),
                       ks, k - 1, right_mask)

decode_noswap(digest, idx, ks, pre) ==
    LET s == common_setup(idx, pre)
        lr == decode_rounds_noswap(digest, s[1], s[2], ks, FEISTEL_ROUNDS, s[3])
    IN [panic |-> lr.panic, value |-> BitOr(Shl(lr.left, s[4]), lr.right)]

\* [panic |-> the keys[i] access was out of bounds, value |-> the result otherwise]
decode(digest, idx, ks, pre) ==
    LET s == common_setup(idx, pre)
        lr == decode_rounds(digest, s[1], s[2], ks, FEISTEL_ROUNDS, s[3])
    IN [panic |-> lr.panic, value |-> BitOr(Shl(lr.left, s[4]), lr.right)]

Last(s) == s[Len(s)]

(***************************************************************************)
(* permute, invert_permute (lines 35-66).  A call yields                   *)
(*   [panic, returned, walk]: walk is the sequence of values `u` took;     *)
(*   the value returned is Last(walk).  returned = FALSE: the loop was     *)
(*   still running after MaxWalk applications.                             *)
(***************************************************************************)
\* the loop re-encoding the original index instead of u
RECURSIVE permute_loop_reindex(_, _, _, _, _)
permute_loop_reindex(digest, n, w, ks, pre) ==
    IF Lt(Last(w), n) THEN [panic |-> FALSE, returned |-> TRUE, walk |-> w]
    ELSE IF Len(w) >= MaxWalk THEN [panic |-> FALSE, returned |-> FALSE, walk |-> w]
    ELSE permute_loop_reindex(digest, n, Append(w, w[1]), ks, pre)

\* the loop with `u > num_elements` as its condition
RECURSIVE permute_loop_gt(_, _, _, _, _)
permute_loop_gt(digest, n, w, ks, pre) ==
    IF Le(Last(w), n) THEN [panic |-> FALSE, returned |-> TRUE, walk |-> w]
    ELSE IF Len(w) >= MaxWalk THEN [panic |-> FALSE, returned |-> FALSE, walk |-> w]
    ELSE permute_loop_gt(digest, n, Append(w, encode(digest, Last(w), ks, pre)), ks, pre)

\* while u >= num_elements { u = encode(u, keys, precomputed) }
RECURSIVE permute_loop(_, _, _, _, _)
permute_loop(digest, n, w, ks, pre) ==
    IF Lt(Last(w), n) THEN [panic |-> FALSE, returned |-> TRUE, walk |-> w]
    ELSE IF Len(w) >= MaxWalk THEN [panic |-> FALSE, returned |-> FALSE, walk |-> w]
    ELSE permute_loop(digest, n, Append(w, encode(digest, Last(w), ks, pre)), ks, pre)

\* permute without the cycle walk
permute_nowalk(digest, n, idx, ks, pre) ==
    [panic |-> FALSE, returned |-> TRUE, walk |-> <<encode(digest, idx, ks, pre)>>]

permute(digest, n, idx, ks, pre) ==
    permute_loop(digest, n, <<encode(digest, idx, ks, pre)>>, ks, pre)

\* while u >= num_elements { u = decode(u, keys, precomputed) }
RECURSIVE invert_permute_loop(_, _, _, _, _)
invert_permute_loop(digest, n, w, ks, pre) ==
    IF Lt(Last(w), n) THEN [panic |-> FALSE, returned |-> TRUE, walk |-> w]
    ELSE IF Len(w) >= MaxWalk THEN [panic |-> FALSE, returned |-> FALSE, walk |-> w]
    ELSE invert_permute_loop(digest, n,
                             Append(w, decode(digest, Last(w), ks, pre).value), ks, pre)

\* invert_permute without the cycle walk
invert_permute_nowalk(digest, n, idx, ks, pre) ==
    LET d == decode(digest, idx, ks, pre)
    IN [panic |-> d.panic, returned |-> ~d.panic, walk |-> <<d.value>>]

invert_permute(digest, n, idx, ks, pre) ==
    LET d == decode(digest, idx, ks, pre)
    IN IF d.panic THEN [panic |-> TRUE, returned |-> FALSE, walk |-> <<>>]
       ELSE invert_permute_loop(digest, n, <<d.value>>, ks, pre)

(***************************************************************************)
(* Inputs.                                                                 *)
(***************************************************************************)
Key(s) == [k \in DOMAIN s |-> FromNat(s[k])]
KeyVals == {FromNat(1), FromNat(2), FromNat(3)}
\* two key sequences long enough, two that are too short
KeySeqs == {Key(<<1, 2, 3>>), Key(<<3, 1, 2, 1>>), Key(<<1, 2>>), <<>>}
LongKeySeqs == {ks \in KeySeqs : Len(ks) >= FEISTEL_ROUNDS}

\* a digest: byte 0 is a, byte 56 is b, the other bytes read by the fold are
\* zero and the bytes the fold skips are 0xFF
Digest(a, b) ==
    [k \in 0 .. (DigestBytes - 1) |->
        IF k = 0 THEN a ELSE IF k = 56 THEN b ELSE IF k % 8 = 0 THEN {} ELSE 0 .. 7]
DigestSet == {Digest({}, {}), Digest({0}, {}), Digest({0}, {1, 2})}

\* every value a Feistel half can take in the permutation runs
RoundInputs == {FromNat(k) : k \in 0 .. 7}
Hashes == [{feistel_data(r, k) : r \in RoundInputs, k \in KeyVals} -> DigestSet]

Pow4(h) == {2 * h}
IsPow4(n) == \E h \in 1 .. 31 : n = Pow4(h)
\* the superset domain [0, 4^half_bits)
Superset(pre) == {x \in SUBSET (0 .. (2 * pre[3] - 1)) : TRUE}

(***************************************************************************)
(* The permutation runs (the drivers of the tests module, lines 151-205).  *)
(***************************************************************************)
Init ==
    /\ num_elements \in {FromNat(n) : n \in 1 .. MaxN}
    /\ keys \in KeySeqs
    /\ blake2b \in Hashes
    /\ test \in {"encode_decode", "permute"}
    /\ pc = "start"
    /\ precomputed = <<{}, {}, 0>>
    /\ i = 0
    /\ index = {}
    /\ p = {}
    /\ v = {}
    /\ walk = <<>>
    /\ perm = <<>>
    /\ round_key = {}
    /\ round_mask = {}
    /\ round_calls = {}

\* let precomputed = precompute(n), when no multiplication overflows
PrecomputeReturn ==
    /\ pc = "start"
    /\ precompute_run(num_elements).exit
    /\ ~precompute_run(num_elements).overflow
    /\ precomputed' = precompute(num_elements)
    /\ pc' = "ready"
    /\ UNCHANGED <<num_elements, keys, blake2b, test, i, index, p, v, walk, perm,
                   round_key, round_mask, round_calls>>

\* next_pow4 *= 4 overflows, debug build: the arithmetic overflow check panics
PrecomputePanic ==
    /\ pc = "start"
    /\ precompute_run(num_elements).overflow
    /\ pc' = "overflow_panic"
    /\ UNCHANGED <<num_elements, keys, blake2b, test, precomputed, i, index, p, v,
                   walk, perm, round_key, round_mask, round_calls>>

\* next_pow4 *= 4 overflows, release build: it wraps; the loop goes on with
\* the wrapped value and is still running after MaxLog4 iterations
PrecomputeWrap ==
    /\ pc = "start"
    /\ precompute_run(num_elements).overflow
    /\ pc' = IF precompute_run(num_elements).exit THEN "ready" ELSE "hung"
    /\ precomputed' = IF precompute_run(num_elements).exit
                      THEN precompute(num_elements) ELSE precomputed
    /\ UNCHANGED <<num_elements, keys, blake2b, test, i, index, p, v, walk, perm,
                   round_key, round_mask, round_calls>>

\* let p = encode(x, keys, precomputed), x anywhere in the superset domain
EncodeCall ==
    /\ pc = "ready"
    /\ test = "encode_decode"
    /\ \E x \in Superset(precomputed) :
        /\ index' = x
        /\ p' = encode(blake2b, x, keys, precomputed)
    /\ pc' = "encoded"
    /\ UNCHANGED <<num_elements, keys, blake2b, test, precomputed, i, v, walk, perm,
                   round_key, round_mask, round_calls>>

\* let v = decode(p, keys, precomputed)
DecodeCall ==
    /\ pc = "encoded"
    /\ LET d == decode(blake2b, p, keys, precomputed)
       IN /\ pc' = IF d.panic THEN "oob_panic" ELSE "decoded"
          /\ v' = IF d.panic THEN v ELSE d.value
    /\ UNCHANGED <<num_elements, keys, blake2b, test, precomputed, i, index, p, walk,
                   perm, round_key, round_mask, round_calls>>

\* let p = permute(n, i, keys, precomputed), for i in 0..n
PermuteCall ==
    /\ pc = "ready"
    /\ test = "permute"
    /\ Lt(FromNat(i), num_elements)
    /\ LET r == permute(blake2b, num_elements, FromNat(i), keys, precomputed)
       IN /\ index' = FromNat(i)
          /\ walk' = r.walk
          /\ p' = IF r.returned THEN Last(r.walk) ELSE p
          /\ pc' = IF r.returned THEN "permuted" ELSE "hung"
    /\ UNCHANGED <<num_elements, keys, blake2b, test, precomputed, i, v, perm,
                   round_key, round_mask, round_calls>>

\* let v = invert_permute(n, p, keys, precomputed)
InvertPermuteCall ==
    /\ pc = "permuted"
    /\ LET r == invert_permute(blake2b, num_elements, p, keys, precomputed)
       IN /\ walk' = r.walk
          /\ v' = IF r.returned THEN Last(r.walk) ELSE v
          /\ pc' = IF r.panic THEN "oob_panic"
                   ELSE IF r.returned THEN "inverted" ELSE "hung"
    /\ UNCHANGED <<num_elements, keys, blake2b, test, precomputed, i, index, p, perm,
                   round_key, round_mask, round_calls>>

\* assert_eq!(i, v); assert!(p <= *n); and the next iteration
TestAssert ==
    /\ pc = "inverted"
    /\ IF v = index /\ Le(p, num_elements)
       THEN /\ perm' = Append(perm, p)
            /\ i' = i + 1
            /\ pc' = "ready"
       ELSE /\ pc' = "assert_failed"
            /\ UNCHANGED <<perm, i>>
    /\ UNCHANGED <<num_elements, keys, blake2b, test, precomputed, index, p, v, walk,
                   round_key, round_mask, round_calls>>

\* the loop over 0..n is over
TestDone ==
    /\ pc = "ready"
    /\ test = "permute"
    /\ ~Lt(FromNat(i), num_elements)
    /\ pc' = "done"
    /\ UNCHANGED <<num_elements, keys, blake2b, test, precomputed, i, index, p, v,
                   walk, perm, round_key, round_mask, round_calls>>

Next ==
    \/ PrecomputeReturn
    \/ EncodeCall
    \/ DecodeCall
    \/ PermuteCall
    \/ InvertPermuteCall
    \/ TestAssert
    \/ TestDone

Spec == Init /\ [][Next]_vars

(***************************************************************************)
(* precompute over the whole u64 range.                                    *)
(***************************************************************************)
NumElementsPre ==
    {FromNat(n) : n \in 1 .. MaxSmallPre}
        \cup {{b} : b \in Bits}                    \* 2^b
        \cup {{0, b} : b \in Bits \ {0}}           \* 2^b + 1
        \cup {0 .. b : b \in Bits}                 \* 2^(b+1) - 1

InitPre ==
    /\ num_elements \in NumElementsPre
    /\ keys = <<>>
    /\ blake2b = <<>>
    /\ test = "precompute"
    /\ pc = "start"
    /\ precomputed = <<{}, {}, 0>>
    /\ i = 0
    /\ index = {}
    /\ p = {}
    /\ v = {}
    /\ walk = <<>>
    /\ perm = <<>>
    /\ round_key = {}
    /\ round_mask = {}
    /\ round_calls = {}

NextPre ==
    \/ PrecomputeReturn
    \/ PrecomputePanic
    \/ PrecomputeWrap

SpecPre == InitPre /\ [][NextPre]_vars

(***************************************************************************)
(* The round function called on several `right` values with one key.       *)
(***************************************************************************)
KeysF == {FromNat(1), FromNat(258), {0, 56}}
RightsF == {{}, FromNat(1), {1, 40}}
MasksF == {FromNat(1), FromNat(3), FromNat(7)}

InitF ==
    /\ round_key \in KeysF
    /\ round_mask \in MasksF
    /\ blake2b \in [{feistel_data(r, round_key) : r \in RightsF} -> DigestSet]
    /\ round_calls = {}
    /\ num_elements = {}
    /\ keys = <<>>
    /\ test = "feistel"
    /\ pc = "round"
    /\ precomputed = <<{}, {}, 0>>
    /\ i = 0
    /\ index = {}
    /\ p = {}
    /\ v = {}
    /\ walk = <<>>
    /\ perm = <<>>

\* feistel(right, key, right_mask)
FeistelCall ==
    /\ pc = "round"
    /\ \E r \in RightsF :
        /\ \A c \in round_calls : c.right # r
        /\ round_calls' = round_calls \cup
              {[right |-> r,
                data |-> feistel_data(r, round_key),
                out |-> feistel(blake2b, r, round_key, round_mask)]}
    /\ UNCHANGED <<num_elements, keys, blake2b, test, pc, precomputed, i, index, p, v,
                   walk, perm, round_key, round_mask>>

NextF == FeistelCall

SpecF == InitF /\ [][NextF]_vars

(***************************************************************************)
(* Properties.                                                             *)
(***************************************************************************)
LongKeys == Len(keys) >= FEISTEL_ROUNDS
Injective(s) == \A a, b \in DOMAIN s : s[a] = s[b] => a = b
Range(s) == {s[a] : a \in DOMAIN s}
Indices(n) == {x \in SUBSET (0 .. 6) : Lt(x, n)}

\* C1: decode(encode(x, K, P), K, P) = x for every x of the superset domain
\* [0, 4^half_bits), for every P = precompute(n), every key sequence with at
\* least 3 keys and every value of the round function.
C1_DecodeInvertsEncode ==
    (pc = "decoded" /\ LongKeys) => v = index

\* a round trip of an x outside [0, n) that encode moved, with four keys
C1_Witness ==
    /\ pc = "decoded"
    /\ Len(keys) = 4
    /\ Le(num_elements, index)
    /\ p # index
    /\ v = index

\* C2: for every n >= 1 (powers of 4 or not), every i < n and at least 3 keys,
\* invert_permute(n, permute(n, i)) = i and the permuted value is <= n (the
\* two assertions of the test never fail).
C2_PermuteRoundTrip ==
    (LongKeys /\ test = "permute") =>
        /\ pc \notin {"assert_failed", "oob_panic", "hung"}
        /\ pc = "inverted" => (v = index /\ Le(p, num_elements))

\* a round trip for a size that is no power of 4 in which decode had to walk
C2_Witness ==
    /\ pc = "inverted"
    /\ LongKeys
    /\ ~IsPow4(num_elements)
    /\ Len(walk) >= 2
    /\ v = index
    /\ p # index

\* C3: for n a power of 4 and at least 3 keys, permute is a bijection of
\* [0, n) whose inverse is invert_permute: 0..n-1 yield each value of [0, n)
\* exactly once, every value is < n and the round trip gives i back.
C3_Pow4Bijection ==
    (IsPow4(num_elements) /\ LongKeys /\ test = "permute") =>
        /\ pc \notin {"assert_failed", "oob_panic", "hung"}
        /\ pc \in {"permuted", "inverted"} => Lt(p, num_elements)
        /\ pc = "inverted" => v = index
        /\ \A a \in DOMAIN perm : Lt(perm[a], num_elements)
        /\ Injective(perm)
        /\ pc = "done" => /\ Len(perm) = ToNat(num_elements)
                          /\ Range(perm) = Indices(num_elements)

\* the whole of 0..16 has been permuted, and not by the identity
C3_Witness ==
    /\ pc = "done"
    /\ LongKeys
    /\ num_elements = FromNat(16)
    /\ Len(perm) = 16
    /\ \E a \in DOMAIN perm : perm[a] # FromNat(a - 1)

\* the value permute returns for index a of [0, size) under hash hf
PermuteValue(hf, size, a, kseq) ==
    Last(permute(hf, FromNat(size), FromNat(a), kseq, precompute(FromNat(size))).walk)

\* C4, as claimed: there are a size n that is no power of 4, a key sequence,
\* values of the round function and indices of [0, n) for which permute maps
\* two indices to the same value or invert_permute(permute(i)) # i.
\* It speaks of every size, key sequence and hash of the model, not of those
\* of one run, and is stated where a run starts.
C4_Original ==
    pc = "start" =>
      \E size \in {m \in 1 .. MaxN : ~IsPow4(FromNat(m))} :
        \E kseq \in LongKeySeqs :
          \E hf \in Hashes :
            \/ \E a \in 0 .. (size - 1) :
                  ~permute(hf, FromNat(size), FromNat(a), kseq,
                           precompute(FromNat(size))).returned
            \/ \E a \in 0 .. (size - 1) : \E b \in (a + 1) .. (size - 1) :
                  PermuteValue(hf, size, a, kseq) = PermuteValue(hf, size, b, kseq)
            \/ \E a \in 0 .. (size - 1) :
                  LET r == invert_permute(hf, FromNat(size),
                                          PermuteValue(hf, size, a, kseq), kseq,
                                          precompute(FromNat(size)))
                  IN ~r.returned \/ Last(r.walk) # FromNat(a)

\* C4, amended: for n no power of 4 a single encode can leave [0, n), yet
\* permute with its cycle walk never maps two indices of [0, n) to the same
\* value, stays below n, and invert_permute gives every index back.
C4_CycleWalkBijective ==
    (~IsPow4(num_elements) /\ LongKeys /\ test = "permute") =>
        /\ pc \notin {"assert_failed", "hung"}
        /\ pc \in {"permuted", "inverted"} =>
              /\ Lt(p, num_elements)
              /\ \A a \in DOMAIN perm : perm[a] # p
        /\ pc = "inverted" => v = index
        /\ Injective(perm)
        /\ pc = "done" => Range(perm) = Indices(num_elements)

\* a finished run for a size that is no power of 4 in which encode alone
\* sends some index of [0, n) out of [0, n)
C4_Witness ==
    /\ pc = "done"
    /\ LongKeys
    /\ ~IsPow4(num_elements)
    /\ Len(perm) = ToNat(num_elements)
    /\ \E x \in Indices(num_elements) :
          Le(num_elements, encode(blake2b, x, keys, precomputed))

RECURSIVE EncodeIter(_, _)
EncodeIter(k, x) ==
    IF k = 0 THEN x ELSE encode(blake2b, EncodeIter(k - 1, x), keys, precomputed)

RECURSIVE DecodeIter(_, _)
DecodeIter(k, x) ==
    IF k = 0 THEN x ELSE decode(blake2b, DecodeIter(k - 1, x), keys, precomputed).value

\* C5: what permute returns is encode applied k times to index for the least
\* k >= 1 whose iterate is < n; invert_permute returns the first iterate of
\* decode that is < n; a returned value is always < n.
C5_FirstIterateInRange ==
    /\ (pc = "permuted" /\ LongKeys) =>
          /\ Lt(p, num_elements)
          /\ \E k \in 1 .. MaxWalk :
                /\ p = EncodeIter(k, index)
                /\ \A j \in 1 .. (k - 1) : Le(num_elements, EncodeIter(j, index))
    /\ (pc = "inverted" /\ LongKeys) =>
          /\ Lt(v, num_elements)
          /\ \E k \in 1 .. MaxWalk :
                /\ v = DecodeIter(k, p)
                /\ \A j \in 1 .. (k - 1) : Le(num_elements, DecodeIter(j, p))

\* permute returned after walking: the first encode was out of range
C5_Witness ==
    /\ pc = "permuted"
    /\ LongKeys
    /\ Le(num_elements, encode(blake2b, index, keys, precomputed))
    /\ Len(walk) >= 3
    /\ Lt(p, num_elements)

\* C8: for index < n and at least 3 keys the cycle-walking loops end, after at
\* most 4^half_bits - n + 1 applications of encode (of decode).
C8_WalkBound ==
    (LongKeys /\ test = "permute") =>
        /\ pc # "hung"
        /\ pc \in {"permuted", "inverted"} =>
              Len(walk) <= 4^(precomputed[3]) - ToNat(num_elements) + 1

\* a walk that needs every application the bound allows, and more than one
C8_Witness ==
    /\ pc = "permuted"
    /\ LongKeys
    /\ Len(walk) >= 2
    /\ Len(walk) = 4^(precomputed[3]) - ToNat(num_elements) + 1

\* C7, as claimed: with fewer than FEISTEL_ROUNDS keys neither permute nor
\* invert_permute returns a value (both end in an out-of-bounds fault).
C7_ShortKeysFault ==
    (Len(keys) < FEISTEL_ROUNDS /\ test = "permute") =>
        pc \notin {"permuted", "inverted", "done"}

\* C6: precompute(n) returns the smallest positive half_bits with
\* 4^half_bits >= n, right_mask = 2^half_bits - 1 and
\* left_mask = right_mask << half_bits.
C6_PrecomputeMinimal ==
    (test = "precompute" /\ pc = "ready") =>
        LET h == precomputed[3]
        IN /\ h >= 1
           /\ Le(num_elements, Pow4(h))
           /\ h = 1 \/ Lt(Pow4(h - 1), num_elements)
           /\ precomputed[2] = 0 .. (h - 1)
           /\ precomputed[1] = h .. (2 * h - 1)

\* precompute returned for 2^62 with half_bits = 31
C6_Witness ==
    /\ test = "precompute"
    /\ pc = "ready"
    /\ num_elements = {62}
    /\ precomputed[3] = 31

\* C9, as claimed: for every n with 1 <= n < 2^64 the loop of precompute ends
\* without next_pow4 overflowing and returns half_bits with 4^half_bits >= n.
C9_PrecomputeNoOverflow ==
    test = "precompute" =>
        /\ pc \notin {"overflow_panic", "hung"}
        /\ pc = "ready" => Le(num_elements, Pow4(precomputed[3]))

\* the 8 big-endian bytes of key in positions 0..7, zero in positions 8..15
KeyThenZero(key) ==
    [k \in 0 .. (FEISTEL_BYTES - 1) |->
        IF k < 8
        THEN {b - 8 * (7 - k) : b \in {c \in key : c >= 8 * (7 - k) /\ c < 8 * (8 - k)}}
        ELSE {}]

====
